---------------------------- MODULE Spec2Model ----------------------------
(***************************************************************************)
(* A model of rocket-route-result (src/lib.rs): the RouteResult<T> enum,   *)
(* its Responder implementation (respond_to), its Try implementation       *)
(* (into_result, from_error, from_ok), the From<Result<Option<T>, E>>      *)
(* conversion and the Serializable capability.                             *)
(*                                                                         *)
(* One behaviour of the model is one request: a handler of payload type T  *)
(* produces a RouteResult<T> (by a variant constructor, by From, by the    *)
(* Try constructors, or by a chain of two sub-operations joined with `?`)  *)
(* and the framework then calls respond_to on it.                          *)
(***************************************************************************)
EXTENDS Integers, Sequences, FiniteSets, TLC

VARIABLES pc, T, how, src, first, second, sigIn, sig, outcome, result, log

vars == <<pc, T, how, src, first, second, sigIn, sig, outcome, result, log>>

-----------------------------------------------------------------------------
(* Bounds of the model *)

\* payload values of a type are numbered 0..MaxVal
MaxVal == 1
\* Location strings are "/items/0" .. "/items/MaxLoc"
MaxLoc == 1
\* user error values are numbered 0..MaxErr
MaxErr == 1

-----------------------------------------------------------------------------
(* Option<X>: None is <<>>, Some(x) is <<x>> *)

None == <<>>
Some(x) == <<x>>

-----------------------------------------------------------------------------
(* Payloads.  A payload type is one of                                     *)
(*   "unit" : ()                      serialises to  null                  *)
(*   "int"  : an integer n            serialises to  its decimal digits    *)
(*   "str"  : the string "s<n>"       serialises to  the quoted string     *)
(*   "map"  : a map of n entries whose keys are not strings: serde_json    *)
(*            writes {} for the empty map and fails on the first key.      *)

PayloadTypes == {"unit", "int", "str", "map"}

Values(ty) ==
    IF ty = "unit" THEN {[ty |-> "unit", n |-> 0]}
    ELSE {[ty |-> ty, n |-> k] : k \in 0..MaxVal}

AnyValue == UNION {Values(ty) : ty \in PayloadTypes}

\* Result<String, serde_json::Error>
SerOk(s) == [ok |-> TRUE, s |-> s]
SerErr == [ok |-> FALSE, s |-> ""]

to_string(p) ==
    CASE p.ty = "unit" -> SerOk("null")
      [] p.ty = "int"  -> SerOk(ToString(p.n))
      [] p.ty = "str"  -> SerOk("\"s" \o ToString(p.n) \o "\"")
      [] p.ty = "map"  -> IF p.n = 0 THEN SerOk("{}") ELSE SerErr

serialize_json(d) == to_string(d)

-----------------------------------------------------------------------------
(* Errors (Box<dyn Error>): the three private marker errors and user       *)
(* errors; `bt` tells whether the error captured a backtrace.              *)

NotFoundError   == [kind |-> "NotFoundError",   id |-> 0, bt |-> FALSE]
ForbiddenError  == [kind |-> "ForbiddenError",  id |-> 0, bt |-> FALSE]
BadRequestError == [kind |-> "BadRequestError", id |-> 0, bt |-> FALSE]

\* values of a user error type E
UserErrors == [id : 0..MaxErr, bt : BOOLEAN]

\* Box::new(e) coerced to Box<dyn Error>
BoxNew(e) == [kind |-> "Other", id |-> e.id, bt |-> e.bt]

BoxedErrors == {NotFoundError, ForbiddenError, BadRequestError}
                   \cup {BoxNew(e) : e \in UserErrors}

\* Display
Display(e) ==
    CASE e.kind = "NotFoundError"   -> "Not found"
      [] e.kind = "ForbiddenError"  -> "Forbidden"
      [] e.kind = "BadRequestError" -> "Bad request"
      [] e.kind = "Other"           -> "error " \o ToString(e.id)

\* Error::backtrace
backtrace(e) ==
    IF e.bt THEN Some("backtrace of error " \o ToString(e.id)) ELSE None

-----------------------------------------------------------------------------
(* RouteResult<T> *)

RouteResult(tag, payload, loc, diag, err) ==
    [tag |-> tag, payload |-> payload, loc |-> loc, diag |-> diag, err |-> err]

Ok(x)            == RouteResult("Ok", Some(x), "", None, None)
Created(x, loc)  == RouteResult("Created", Some(x), loc, None, None)
NotFound         == RouteResult("NotFound", None, "", None, None)
BadRequest(d)    == RouteResult("BadRequest", None, "", d, None)
Forbidden        == RouteResult("Forbidden", None, "", None, None)
InternalError(e) == RouteResult("InternalError", None, "", None, Some(e))

Locations == {"/items/" \o ToString(i) : i \in 0..MaxLoc}

\* every value of RouteResult<ty>
RouteResults(ty) ==
    {Ok(x) : x \in Values(ty)}
      \cup {Created(x, l) : x \in Values(ty), l \in Locations}
      \cup {NotFound, Forbidden, BadRequest(None)}
      \cup {BadRequest(Some(d)) : d \in AnyValue}
      \cup {InternalError(e) : e \in BoxedErrors}

-----------------------------------------------------------------------------
(* Responder for RouteResult<T> *)

StatusOk                  == 200
StatusCreated             == 201
StatusBadRequest          == 400
StatusForbidden           == 403
StatusNotFound            == 404
StatusInternalServerError == 500

\* Response::new()
NewResponse == [status |-> StatusOk, headers |-> {}, body |-> None]

\* response.set_header: replaces a header of the same name
set_header(r, name, value) ==
    [r EXCEPT !.headers = {h \in @ : h[1] # name} \cup {<<name, value>>}]

\* rocket::response::Result: Ok(Response) or Err(Status)
RespOk(r)  == [ok |-> TRUE, response |-> Some(r), status |-> 0]
RespErr(s) == [ok |-> FALSE, response |-> None, status |-> s]

\* let status = match self { ... }
StatusOf(self) ==
    CASE self.tag = "Ok"            -> StatusOk
      [] self.tag = "Created"       -> StatusCreated
      [] self.tag = "NotFound"      -> StatusNotFound
      [] self.tag = "BadRequest"    -> StatusBadRequest
      [] self.tag = "Forbidden"     -> StatusForbidden
      [] self.tag = "InternalError" -> StatusInternalServerError

\* BodyOf with the BadRequest arm swallowed by the wildcard arm
BodyOf_NoDiag(self, ty) ==
    CASE self.tag = "Ok" ->
           IF ty = "unit" THEN None ELSE Some(to_string(self.payload[1]))
      [] self.tag = "Created" -> Some(to_string(self.payload[1]))
      [] OTHER -> None

\* let body = match &self { ... } : Option<serde_json::Result<String>>
BodyOf(self, ty) ==
    CASE self.tag = "Ok" ->
           IF ty = "unit" THEN None ELSE Some(to_string(self.payload[1]))
      [] self.tag = "Created" -> Some(to_string(self.payload[1]))
      [] self.tag = "BadRequest" ->
           IF self.diag = None THEN None
           ELSE Some(serialize_json(self.diag[1]))
      [] OTHER -> None

\* LogOf without the else branch of `if let Some(backtrace)`
LogOf_NoMarker(self) ==
    IF self.tag = "InternalError"
    THEN LET e == self.err[1] IN
         IF backtrace(e) # None THEN <<Display(e), backtrace(e)[1]>>
         ELSE <<Display(e)>>
    ELSE <<>>

\* the lines the InternalError arm writes to stderr
LogOf(self) ==
    IF self.tag = "InternalError"
    THEN LET e == self.err[1] IN
         <<Display(e),
           IF backtrace(e) # None THEN backtrace(e)[1]
           ELSE "No backtrace available">>
    ELSE <<>>

\* WithLocation that never sets the header
WithLocation_Never(self, r) == r

\* the Created arm of the second match
WithLocation(self, r) ==
    IF self.tag = "Created" THEN set_header(r, "Location", self.loc) ELSE r

\* Finish that sends the response without a body when serialisation failed
Finish_IgnoreErr(body, r) ==
    IF body # None /\ body[1].ok
    THEN RespOk([set_header(r, "Content-Type", "application/json")
                   EXCEPT !.body = Some(body[1].s)])
    ELSE RespOk(r)

\* if let Some(body) = body { ... }  Ok(response)
Finish(body, r) ==
    IF body # None
    THEN IF body[1].ok
         THEN RespOk([set_header(r, "Content-Type", "application/json")
                        EXCEPT !.body = Some(body[1].s)])
         ELSE RespErr(StatusInternalServerError)
    ELSE RespOk(r)

\* respond_to: the returned value and the lines written to stderr
respond_to(self, ty) ==
    LET r0 == [NewResponse EXCEPT !.status = StatusOf(self)]
        body == BodyOf(self, ty)
        r1 == WithLocation(self, r0)
    IN  [result |-> Finish(body, r1), log |-> LogOf(self)]

-----------------------------------------------------------------------------
(* Try for RouteResult<T>: Result<Option<T>, Box<dyn Error>> *)

Proceed(v) == [ok |-> TRUE, v |-> v, e |-> None]
Abort(e)   == [ok |-> FALSE, v |-> None, e |-> Some(e)]

Signals(ty) ==
    {Proceed(None)} \cup {Proceed(Some(x)) : x \in Values(ty)}
                    \cup {Abort(e) : e \in BoxedErrors}

\* into_result as its doc comment describes it: Created -> Ok(None)
into_result_CreatedNone(self) ==
    CASE self.tag = "Ok"            -> Proceed(Some(self.payload[1]))
      [] self.tag = "Created"       -> Proceed(None)
      [] self.tag = "NotFound"      -> Abort(NotFoundError)
      [] self.tag = "BadRequest"    -> Abort(BadRequestError)
      [] self.tag = "Forbidden"     -> Abort(ForbiddenError)
      [] self.tag = "InternalError" -> Abort(self.err[1])

into_result(self) ==
    CASE self.tag = "Ok"            -> Proceed(Some(self.payload[1]))
      [] self.tag = "Created"       -> Proceed(Some(self.payload[1]))
      [] self.tag = "NotFound"      -> Abort(NotFoundError)
      [] self.tag = "BadRequest"    -> Abort(BadRequestError)
      [] self.tag = "Forbidden"     -> Abort(ForbiddenError)
      [] self.tag = "InternalError" -> Abort(self.err[1])

\* from_error that restores NotFound from its marker error
from_error_Restore(v) == IF v = NotFoundError THEN NotFound ELSE InternalError(v)

from_error(v) == InternalError(v)

\* from_ok that treats a missing value as forbidden
from_ok_Forbidden(v) == IF v # None THEN Ok(v[1]) ELSE Forbidden

from_ok(v) == IF v # None THEN Ok(v[1]) ELSE NotFound

\* Try::from_ok / Try::from_error applied to a Result
Rewrap(s) == IF s.ok THEN from_ok(s.v) ELSE from_error(s.e[1])

-----------------------------------------------------------------------------
(* From<Result<Option<T>, E>> for RouteResult<T> *)

GenOk(v)  == [ok |-> TRUE, v |-> v, e |-> None]
GenErr(e) == [ok |-> FALSE, v |-> None, e |-> Some(e)]

GenericResults(ty) ==
    {GenOk(None)} \cup {GenOk(Some(x)) : x \in Values(ty)}
                  \cup {GenErr(e) : e \in UserErrors}

\* From that turns an error into NotFound
From_ErrNotFound(r) == IF r.ok /\ r.v # None THEN Ok(r.v[1]) ELSE NotFound

From(r) ==
    IF r.ok
    THEN IF r.v # None THEN Ok(r.v[1]) ELSE NotFound
    ELSE InternalError(BoxNew(r.e[1]))

-----------------------------------------------------------------------------
(* The request *)

Init ==
    /\ pc = "idle"
    /\ T \in PayloadTypes
    /\ how = "none"
    /\ src = None
    /\ first = None
    /\ second = FALSE
    /\ sigIn = None
    /\ sig = None
    /\ outcome = None
    /\ result = None
    /\ log = <<>>

\* the handler returns a value built with a variant constructor
HandlerReturns ==
    /\ pc = "idle"
    /\ \E r \in RouteResults(T) :
         outcome' = Some(r)
    /\ how' = "direct"
    /\ pc' = "returned"
    /\ UNCHANGED <<T, src, first, second, sigIn, sig, result, log>>

\* the handler returns result.into()
HandlerFrom ==
    /\ pc = "idle"
    /\ \E g \in GenericResults(T) :
         /\ src' = Some(g)
         /\ outcome' = Some(From(g))
    /\ how' = "from"
    /\ pc' = "returned"
    /\ UNCHANGED <<T, first, second, sigIn, sig, result, log>>

\* the handler returns Try::from_ok(v) or Try::from_error(e)
HandlerTry ==
    /\ pc = "idle"
    /\ \E s \in Signals(T) :
         /\ sig' = Some(s)
         /\ outcome' = Some(Rewrap(s))
    /\ how' = "try"
    /\ pc' = "returned"
    /\ UNCHANGED <<T, src, first, second, sigIn, result, log>>

\* the handler is  { op1()?; let v = op2()?; Try::from_ok(v) } :
\* op1 is evaluated and `?` is applied to what it returns
ChainFirst ==
    /\ pc = "idle"
    /\ \E r \in RouteResults(T) :
         LET s == into_result(r) IN
         /\ first' = Some(r)
         /\ sigIn' = Some(r)
         /\ sig' = Some(s)
         /\ IF s.ok
            THEN /\ pc' = "op2"
                 /\ UNCHANGED outcome
            ELSE /\ pc' = "returned"
                 /\ outcome' = Some(from_error(s.e[1]))
    /\ how' = "chain"
    /\ UNCHANGED <<T, src, second, result, log>>

\* op2 is evaluated, `?` is applied and the value is wrapped with from_ok
ChainSecond ==
    /\ pc = "op2"
    /\ \E r \in RouteResults(T) :
         LET s == into_result(r) IN
         /\ sigIn' = Some(r)
         /\ sig' = Some(s)
         /\ outcome' = Some(Rewrap(s))
    /\ second' = TRUE
    /\ pc' = "returned"
    /\ UNCHANGED <<T, how, src, first, result, log>>

\* the framework encodes the returned value
Respond ==
    /\ pc = "returned"
    /\ LET r == respond_to(outcome[1], T) IN
         /\ result' = Some(r.result)
         /\ log' = log \o r.log
    /\ pc' = "done"
    /\ UNCHANGED <<T, how, src, first, second, sigIn, sig, outcome>>

Next ==
    \/ HandlerReturns
    \/ HandlerFrom
    \/ HandlerTry
    \/ ChainFirst
    \/ ChainSecond
    \/ Respond

Spec == Init /\ [][Next]_vars

-----------------------------------------------------------------------------
(* Properties *)

Done == pc = "done"
Encoded == Done /\ result[1].ok
Resp == result[1].response[1]
HasHeader(name) == \E h \in Resp.headers : h[1] = name
JsonHeader == <<"Content-Type", "application/json">>

\* serialisation of the payload the variant carries fails
SerFails(o) ==
    \/ o.tag \in {"Ok", "Created"} /\ ~to_string(o.payload[1]).ok
    \/ o.tag = "BadRequest" /\ o.diag # None /\ ~to_string(o.diag[1]).ok

\* C1 (as stated): in a chain of two sub-operations joined by `?`, if the
\* first yields NotFound the second is never evaluated and the outcome of
\* the chain encodes to status 404.
C1_Chain404 ==
    (Done /\ how = "chain" /\ first = Some(NotFound))
        => /\ ~second
           /\ result[1].ok
           /\ Resp.status = StatusNotFound

\* C1 (amended): in a chain of two sub-operations joined by `?`, if the
\* first yields NotFound the second is never evaluated and the outcome of
\* the chain is InternalError(NotFoundError), which encodes to status 500
\* with no body and logs "Not found" and "No backtrace available".
C1_Chain500 ==
    (how = "chain" /\ first = Some(NotFound))
        => /\ ~second
           /\ pc # "op2"
           /\ outcome = Some(InternalError(NotFoundError))
           /\ Done => /\ result[1].ok
                      /\ Resp.status = StatusInternalServerError
                      /\ Resp.body = None
                      /\ log = <<"Not found", "No backtrace available">>

C1_Witness == Done /\ how = "chain" /\ first = Some(NotFound) /\ ~second

\* C2: for every payload type, encoding Forbidden yields status 401, no
\* body and no Content-Type or Location header.
C2_Forbidden401 ==
    (Done /\ outcome = Some(Forbidden))
        => /\ result[1].ok
           /\ Resp.status = 401
           /\ Resp.body = None
           /\ Resp.headers = {}

\* C3: when the payload type is the unit type, respond_to emits no body and
\* no Content-Type header for the Ok variant and for the Created variant.
C3_UnitNoBody ==
    (Done /\ T = "unit" /\ outcome[1].tag \in {"Ok", "Created"})
        => /\ result[1].ok
           /\ Resp.body = None
           /\ ~HasHeader("Content-Type")

\* C4: for a non-unit payload type and payloads whose serialisation
\* succeeds, Ok(p) encodes to 200 with body serialize(p), Created(p, loc) to
\* 201 with Location = loc and body serialize(p), NotFound to 404 with no
\* body, BadRequest(None) to 400 with no body and BadRequest(Some(d)) to 400
\* with body serialize(d).
C4_Encoding ==
    (Done /\ T # "unit" /\ ~SerFails(outcome[1])) =>
        LET o == outcome[1] IN
        /\ result[1].ok
        /\ o.tag = "Ok" =>
             /\ Resp.status = 200
             /\ Resp.body = Some(to_string(o.payload[1]).s)
        /\ o.tag = "Created" =>
             /\ Resp.status = 201
             /\ {h \in Resp.headers : h[1] = "Location"} = {<<"Location", o.loc>>}
             /\ Resp.body = Some(to_string(o.payload[1]).s)
        /\ o.tag = "NotFound" =>
             /\ Resp.status = 404
             /\ Resp.body = None
        /\ (o.tag = "BadRequest" /\ o.diag = None) =>
             /\ Resp.status = 400
             /\ Resp.body = None
        /\ (o.tag = "BadRequest" /\ o.diag # None) =>
             /\ Resp.status = 400
             /\ Resp.body = Some(to_string(o.diag[1]).s)

C4_Witness ==
    /\ Encoded
    /\ T = "str"
    /\ outcome[1].tag = "BadRequest"
    /\ outcome[1].diag = Some([ty |-> "int", n |-> 1])
    /\ Resp.body = Some("1")

\* C5: if serialisation of a present payload fails, respond_to returns no
\* response but the failure status 500: no body, header or selected status
\* is passed on.
C5_SerFailure ==
    (Done /\ SerFails(outcome[1]))
        => /\ ~result[1].ok
           /\ result[1].status = StatusInternalServerError
           /\ result[1].response = None

C5_Witness ==
    /\ Done
    /\ outcome[1].tag = "Created"
    /\ outcome[1].payload = Some([ty |-> "map", n |-> 1])
    /\ ~result[1].ok

\* C6: encoding InternalError(e) yields status 500 with no body and no
\* header and logs e's message followed by its backtrace or, when it has
\* none, by "No backtrace available"; encoding any other variant logs
\* nothing.
C6_Logging ==
    Done =>
        LET o == outcome[1] IN
        IF o.tag = "InternalError"
        THEN /\ result[1].ok
             /\ Resp.status = 500
             /\ Resp.body = None
             /\ Resp.headers = {}
             /\ Len(log) = 2
             /\ log[1] = Display(o.err[1])
             /\ log[2] = IF o.err[1].bt
                         THEN "backtrace of error " \o ToString(o.err[1].id)
                         ELSE "No backtrace available"
        ELSE log = <<>>

C6_Witness ==
    /\ Done
    /\ how = "direct"
    /\ outcome[1].tag = "InternalError"
    /\ ~outcome[1].err[1].bt
    /\ log = <<"error 1", "No backtrace available">>

\* C7: in every response respond_to returns, Content-Type is present (and
\* is the JSON media type) iff a body is present, and Location is present
\* iff the status is 201, where it is the location Created carries.
C7_Headers ==
    Encoded =>
        /\ HasHeader("Content-Type") <=> Resp.body # None
        /\ \A h \in Resp.headers : h[1] = "Content-Type" => h = JsonHeader
        /\ HasHeader("Location") <=> Resp.status = 201
        /\ \A h \in Resp.headers :
             h[1] = "Location" => /\ outcome[1].tag = "Created"
                                  /\ h[2] = outcome[1].loc

C7_Witness ==
    /\ Encoded
    /\ Resp.status = 201
    /\ Resp.headers = {<<"Location", "/items/1">>, JsonHeader}

C10_FromEquiv ==
    (Done /\ how = "from") =>
        LET g == src[1]
            direct == IF ~g.ok THEN InternalError(BoxNew(g.e[1]))
                      ELSE IF g.v = None THEN NotFound ELSE Ok(g.v[1])
            d == respond_to(direct, T)
        IN  /\ result[1] = d.result
            /\ log = d.log
            /\ ~g.ok => /\ result[1].ok
                        /\ Resp.status = 500
                        /\ Resp.body = None
                        /\ log[1] = "error " \o ToString(g.e[1].id)

C10_Witness ==
    /\ Done
    /\ how = "from"
    /\ src = Some(GenErr([id |-> 1, bt |-> TRUE]))
    /\ log = <<"error 1", "backtrace of error 1">>

=============================================================================
